---- MODULE Spec2Model ----
(***************************************************************************)
(* Model of the two polling utilities of the repository:                   *)
(*   monitor_performance.py  (process selector, size formatter, sampler)   *)
(*   monitor_signals.py      (signal aggregator and its display loop)      *)
(* The programs are standalone: a behaviour runs one of them, named by     *)
(* the variable prog.  Each part has its own specification.                *)
(***************************************************************************)
EXTENDS Integers, Sequences, FiniteSets, TLC

VARIABLES
    prog,           \* which program / function this behaviour runs
    \* ---- format_size(bytes)
    fs_bytes,       \* the argument, base-1024 digits, least significant first
    fs_k,           \* number of `bytes /= 1024` executed so far
    fs_ret,         \* <<>> while running, then <<the returned string>>
    \* ---- get_rig_processes()
    table,          \* what psutil.process_iter yields: one info per process
    sel_ret,        \* <<>> before the call, then <<its outcome>>
    \* ---- monitor_signals.py
    content,        \* data rows of data/market_analysis/analysis_results.csv
    present,        \* whether that file exists
    d_pc,           \* "refresh" | "sleep" | "exited"
    signals,        \* read_and_display_signals: signals after the row loop
    latest_signals, \* read_and_display_signals: latest_signals
    displayed,      \* the rows of the table printed last
    report,         \* what the last refresh printed: "table" | "not_found" | "error"
    d_exc,          \* the exception raised inside the last refresh ("" for none)
    d_exit,         \* the exception that ended the program ("" while running)
    \* ---- monitor_performance()
    s_pc,           \* "select" | "sample" | "sleep" | "exited"
    iteration,      \* number of the pass of `while True` in progress, from 1
    processes,      \* the pids get_rig_processes returned in this pass
    s_i,            \* position of `for proc in processes`
    buffer,         \* rows written to f and not yet handed to the file
    disk,           \* rows in the log file
    written,        \* every row passed to writer.writerow so far
    s_msg,          \* the closing message printed ("" for none)
    s_exc,          \* the exception raised last in the loop ("" for none)
    s_exit          \* the exception that ended the program ("" while running)

fmtVars == <<fs_bytes, fs_k, fs_ret>>
selVars == <<table, sel_ret>>
sigVars == <<content, present, d_pc, signals, latest_signals, displayed,
             report, d_exc, d_exit>>
smpVars == <<s_pc, iteration, processes, s_i, buffer, disk, written, s_msg,
             s_exc, s_exit>>
vars == <<prog, fmtVars, selVars, sigVars, smpVars>>

\* the parts a behaviour does not run stay as constructed
FmtIdle == fs_bytes = <<>> /\ fs_k = 0 /\ fs_ret = <<>>
SelIdle == table = <<>> /\ sel_ret = <<>>
SmpIdle ==
    /\ s_pc = "idle" /\ iteration = 0 /\ processes = <<>> /\ s_i = 0
    /\ buffer = <<>> /\ disk = <<>> /\ written = {}
    /\ s_msg = "" /\ s_exc = "" /\ s_exit = ""
SigIdle ==
    /\ content = <<>> /\ present = FALSE /\ d_pc = "idle"
    /\ signals = <<>> /\ latest_signals = <<>> /\ displayed = <<>>
    /\ report = "" /\ d_exc = "" /\ d_exit = ""

\* ------------------------------------------------------------------------
\* Arbitrary-size naturals as base-1024 digit sequences (TLC integers are
\* 32 bits wide, a byte count is not).
\* ------------------------------------------------------------------------
Base == 1024

MaxDigits == 6

RECURSIVE MulFrom(_, _, _, _)
MulFrom(d, m, i, c) ==
    IF i > Len(d) THEN <<c>>
    ELSE LET v == d[i] * m + c
         IN  <<v % Base>> \o MulFrom(d, m, i + 1, v \div Base)

MulDigits(d, m) == MulFrom(d, m, 1, 0)

RECURSIVE IncFrom(_, _)
IncFrom(d, i) ==
    IF i > Len(d) THEN <<1>>
    ELSE IF d[i] + 1 < Base THEN <<d[i] + 1>> \o SubSeq(d, i + 1, Len(d))
    ELSE <<0>> \o IncFrom(d, i + 1)

IncDigits(d) == IncFrom(d, 1)

RECURSIVE Trim(_)
Trim(d) ==
    IF d = <<>> THEN <<>>
    ELSE IF d[Len(d)] = 0 THEN Trim(SubSeq(d, 1, Len(d) - 1))
    ELSE d

RECURSIVE ToDigits(_)
ToDigits(n) == IF n = 0 THEN <<>> ELSE <<n % Base>> \o ToDigits(n \div Base)

\* a < b for trimmed digit sequences
RECURSIVE DigitsLess(_, _)
DigitsLess(a, b) ==
    IF Len(a) # Len(b) THEN Len(a) < Len(b)
    ELSE IF a = <<>> THEN FALSE
    ELSE IF a[Len(a)] # b[Len(b)] THEN a[Len(a)] < b[Len(b)]
    ELSE DigitsLess(SubSeq(a, 1, Len(a) - 1), SubSeq(b, 1, Len(b) - 1))

\* ------------------------------------------------------------------------
\* format_size
\* ------------------------------------------------------------------------
Units == <<"B", "KB", "MB", "GB">>

\* the comparison taken one unit too late
M_Below1024(d, k) == \A i \in (k + 3)..Len(d) : d[i] = 0

\* `bytes < 1024` after k divisions: the value is bytes / 1024^k
Below1024(d, k) == \A i \in (k + 2)..Len(d) : d[i] = 0

\* f"{bytes:.2f}": the value bytes / 1024^k in hundredths, correctly rounded
\* (ties to even), as a trimmed digit sequence
Format2f(d, k) ==
    LET h     == MulDigits(d, 100)
        whole == SubSeq(h, k + 1, Len(h))
        top   == IF k = 0 THEN 0 ELSE h[k]
        low   == \E i \in 1..(k - 1) : h[i] # 0
        up    == \/ top > Base \div 2
                 \/ top = Base \div 2 /\ low
                 \/ top = Base \div 2 /\ ~low /\ whole[1] % 2 = 1
    IN  Trim(IF up THEN IncDigits(whole) ELSE whole)

Rendered(d, k, unit) == [hundredths |-> Format2f(d, k), unit |-> unit]

FsInputs == [1..MaxDigits -> {0, 1, 128, 384, 1023}]

FsInit ==
    /\ prog = "format_size"
    /\ SelIdle
    /\ SigIdle
    /\ SmpIdle
    /\ fs_bytes \in FsInputs
    /\ fs_k = 0
    /\ fs_ret = <<>>

\* one iteration of `for unit in ['B', 'KB', 'MB', 'GB']`
FsLoop ==
    /\ prog = "format_size"
    /\ fs_ret = <<>>
    /\ fs_k < Len(Units)
    /\ IF Below1024(fs_bytes, fs_k)
       THEN /\ fs_ret' = <<Rendered(fs_bytes, fs_k, Units[fs_k + 1])>>
            /\ fs_k' = fs_k
       ELSE /\ fs_k' = fs_k + 1
            /\ fs_ret' = fs_ret
    /\ UNCHANGED <<prog, fs_bytes, selVars, sigVars, smpVars>>

\* the statement after the loop
FsFallThrough ==
    /\ prog = "format_size"
    /\ fs_ret = <<>>
    /\ fs_k = Len(Units)
    /\ fs_ret' = <<Rendered(fs_bytes, fs_k, "TB")>>
    /\ UNCHANGED <<prog, fs_bytes, fs_k, selVars, sigVars, smpVars>>

\* ------------------------------------------------------------------------
\* C10
\* ------------------------------------------------------------------------
FsReturned == prog = "format_size" /\ fs_ret # <<>>

\* the least j with n < 1024^j  (0 for n = 0)
FsMagnitude == Len(Trim(fs_bytes))

FsExample(n, hundredths, unit) ==
    Trim(fs_bytes) = ToDigits(n) =>
        fs_ret[1] = [hundredths |-> ToDigits(hundredths), unit |-> unit]

FsExamples ==
    /\ FsExample(1023, 102300, "B")
    /\ FsExample(1024, 100, "KB")
    /\ FsExample(1048576, 100, "MB")

FsSmallestUnit ==
    fs_ret[1].unit = CASE FsMagnitude <= 1 -> "B"
                       [] FsMagnitude = 2 -> "KB"
                       [] FsMagnitude = 3 -> "MB"
                       [] FsMagnitude = 4 -> "GB"
                       [] OTHER -> "TB"

\* C10 as stated: for every byte count the rendered number is below 1024, the
\* unit is the smallest for which that holds, and 1023, 1024 and 1048576
\* render as "1023.00B", "1.00KB" and "1.00MB".
C10_Original ==
    FsReturned =>
        /\ DigitsLess(fs_ret[1].hundredths, ToDigits(102400))
        /\ FsSmallestUnit
        /\ FsExamples

\* C10 (amended): format_size divides by 1024 per step along B, KB, MB, GB, TB
\* and returns at the first unit where the value before rounding is below
\* 1024, so for n < 1024^5 the unit is the smallest such one and the number
\* rendered with two decimals is at most 1024.00 (1024.00 itself when the
\* value rounds up, e.g. 1048575 gives "1024.00KB"); for n >= 1024^5 the unit
\* is TB and the rendered number is 1024.00 or more.  1023 gives "1023.00B",
\* 1024 gives "1.00KB" and 1048576 gives "1.00MB".
C10_FormatSize ==
    FsReturned =>
        /\ FsSmallestUnit
        /\ FsMagnitude <= 5 =>
               ~DigitsLess(ToDigits(102400), fs_ret[1].hundredths)
        /\ FsMagnitude >= 2 =>
               ~DigitsLess(fs_ret[1].hundredths, ToDigits(100))
        /\ FsMagnitude >= 6 =>
               /\ fs_ret[1].unit = "TB"
               /\ ~DigitsLess(fs_ret[1].hundredths, ToDigits(102400))
        /\ FsExamples

C10_Witness ==
    /\ FsReturned
    /\ Trim(fs_bytes) = ToDigits(1048576)
    /\ fs_ret[1] = [hundredths |-> ToDigits(100), unit |-> "MB"]

FsNext == FsLoop \/ FsFallThrough

\* ------------------------------------------------------------------------
\* Python values.  A string is a sequence of atoms (the markers the code
\* searches for are atoms); `x in s` is membership of the atom.
\* ------------------------------------------------------------------------
None == [t |-> "none"]
Str(s) == [t |-> "str", v |-> s]
List(l) == [t |-> "list", v |-> l]

LowerAtom(a) ==
    CASE a = "Python" -> "python"
      [] a = "RIG" -> "rig"
      [] a = "Cargo" -> "cargo"
      [] a = "/root/RIGnew" -> "/root/rignew"
      [] a = "Target/Release" -> "target/release"
      [] OTHER -> a

Lower(s) == [i \in 1..Len(s) |-> LowerAtom(s[i])]

In(marker, s) == \E i \in 1..Len(s) : s[i] = marker

\* truth value of `cmdline` (None and [] are false)
Truthy(x) == x.t = "list" /\ x.v # <<>>

\* any(pred(cmd) for cmd in cmdline)
AnyCmd(cmdline, marker, lowered) ==
    \E i \in 1..Len(cmdline.v) :
        In(marker, IF lowered THEN Lower(cmdline.v[i]) ELSE cmdline.v[i])

\* ------------------------------------------------------------------------
\* should_show_process.  CPU and memory are in tenths of a percent.
\* ------------------------------------------------------------------------
Suppressed == {"stopped", "dead", "zombie"}

UsageEpsilon == 1

\* the visibility test with `and` where the code has `or`
M_should_show_process(proc_info) ==
    /\ proc_info.status \notin Suppressed
    /\ \/ proc_info.cpu_percent > UsageEpsilon
       \/ proc_info.memory_percent > UsageEpsilon

should_show_process(proc_info) ==
    \/ proc_info.status \notin Suppressed
    \/ proc_info.cpu_percent > UsageEpsilon
    \/ proc_info.memory_percent > UsageEpsilon

\* ------------------------------------------------------------------------
\* get_rig_processes
\* ------------------------------------------------------------------------
rig_path == "/root/RIGnew"

\* the first any((...)); name is proc.info['name'].lower()
Relevant(cmdline, name) ==
    \/ Truthy(cmdline) /\ AnyCmd(cmdline, rig_path, FALSE)
    \/ In("python", name)
    \/ In("rig", Lower(name))
    \/ In("rust", Lower(name))
    \/ In("cargo", Lower(name))
    \/ Truthy(cmdline) /\ AnyCmd(cmdline, "crypto-agents", TRUE)
    \/ Truthy(cmdline) /\ AnyCmd(cmdline, "monitor", TRUE)
    \/ Truthy(cmdline) /\ AnyCmd(cmdline, ".rs", TRUE)

\* the second any((...)) on executable = cmdline[0].lower()
ExecutableMatch(cmdline) ==
    /\ Truthy(cmdline)
    /\ LET executable == Lower(cmdline.v[1])
       IN  \/ In("target/release", executable)
           \/ In("target/debug", executable)
           \/ In("crypto-agents", executable)

\* the exceptions the loop body's handler swallows
SelectorCaught == {"NoSuchProcess", "AccessDenied"}

\* One pass of the for-body on one process: what it appends and what it
\* raises ("" for nothing).  None has no lower().
LoopBody(proc) ==
    IF proc.name.t = "none"
    THEN [exc |-> "AttributeError", appended |-> <<>>]
    ELSE LET cmdline == proc.cmdline
             name    == Lower(proc.name.v)
             first   == IF Relevant(cmdline, name) /\ should_show_process(proc)
                        THEN <<proc>> ELSE <<>>
             second  == IF ExecutableMatch(cmdline) /\ should_show_process(proc)
                        THEN <<proc>> ELSE <<>>
         IN  [exc |-> "", appended |-> first \o second]

\* the for loop over process_iter: the list built, and the exception that
\* leaves the function ("" when it runs to the end)
RECURSIVE ScanFrom(_, _, _)
ScanFrom(procs, i, rig_processes) ==
    IF i > Len(procs) THEN [exc |-> "", rig_processes |-> rig_processes]
    ELSE LET b == LoopBody(procs[i])
         IN  IF b.exc = "" \/ b.exc \in SelectorCaught
             THEN ScanFrom(procs, i + 1, rig_processes \o b.appended)
             ELSE [exc |-> b.exc, rig_processes |-> rig_processes \o b.appended]

\* the dedup loop left out
M_UniqueFrom(rig_processes, i, seen_pids) == rig_processes

\* "Remove duplicates based on PID"
RECURSIVE UniqueFrom(_, _, _)
UniqueFrom(rig_processes, i, seen_pids) ==
    IF i > Len(rig_processes) THEN <<>>
    ELSE IF rig_processes[i].pid \notin seen_pids
    THEN <<rig_processes[i]>>
         \o UniqueFrom(rig_processes, i + 1, seen_pids \cup {rig_processes[i].pid})
    ELSE UniqueFrom(rig_processes, i + 1, seen_pids)

\* outcome of a call: the exception raised ("" for a normal return), the
\* local rig_processes and the returned unique_processes
get_rig_processes(procs) ==
    LET scan == ScanFrom(procs, 1, <<>>)
    IN  [exc |-> scan.exc,
         rig_processes |-> scan.rig_processes,
         unique_processes |-> IF scan.exc = ""
                              THEN UniqueFrom(scan.rig_processes, 1, {})
                              ELSE <<>>]

\* ---- the process tables the selector is run on
MaxProcs == 2

Names == {None, Str(<<"Python", "3">>), Str(<<"bash">>)}

Cmdlines == {None,
             List(<< <<"/root/RIGnew", "/run.py">> >>),
             List(<< <<"/opt/", "Target/Release", "/agent">>, <<"--fast">> >>),
             List(<< <<"/bin/", "sh">> >>)}

Statuses == {"running", "stopped", "zombie"}

\* <<cpu_percent, memory_percent>>
Usages == {<<0, 0>>, <<1, 1>>, <<2, 0>>, <<0, 2>>}

Info(pid, name, cmdline, status, usage) ==
    [pid |-> pid, name |-> name, cmdline |-> cmdline, status |-> status,
     cpu_percent |-> usage[1], memory_percent |-> usage[2]]

\* process_iter yields each pid once: the i-th process has pid i
TableOf(f) ==
    [i \in DOMAIN f |-> Info(i, f[i][1], f[i][2], f[i][3], f[i][4])]

SelInit ==
    /\ prog = "get_rig_processes"
    /\ \E n \in 1..MaxProcs :
         \E f \in [1..n -> Names \X Cmdlines \X Statuses \X Usages] :
             table = TableOf(f)
    /\ sel_ret = <<>>
    /\ FmtIdle
    /\ SigIdle
    /\ SmpIdle

GetRigProcesses ==
    /\ prog = "get_rig_processes"
    /\ sel_ret = <<>>
    /\ sel_ret' = <<get_rig_processes(table)>>
    /\ UNCHANGED <<prog, table, fmtVars, sigVars, smpVars>>

\* ------------------------------------------------------------------------
\* C2, C3, C4
\* ------------------------------------------------------------------------
SelReturned == prog = "get_rig_processes" /\ sel_ret # <<>> /\ sel_ret[1].exc = ""

SelOutput == sel_ret[1].unique_processes

SelPids == {SelOutput[i].pid : i \in 1..Len(SelOutput)}

\* index of the first entry of l with this pid
FirstMatch(l, pid) ==
    CHOOSE i \in 1..Len(l) :
        l[i].pid = pid /\ \A j \in 1..(i - 1) : l[j].pid # pid

\* C2: the returned list holds at most one entry per pid, also for a process
\* appended twice, holds every pid that was appended, and keeps the order in
\* which the pids were first matched.
C2_Dedup ==
    SelReturned =>
        LET rig == sel_ret[1].rig_processes
        IN  /\ \A i, j \in 1..Len(SelOutput) :
                   SelOutput[i].pid = SelOutput[j].pid => i = j
            /\ SelPids = {rig[i].pid : i \in 1..Len(rig)}
            /\ \A i, j \in 1..Len(SelOutput) :
                   i < j => FirstMatch(rig, SelOutput[i].pid)
                            < FirstMatch(rig, SelOutput[j].pid)
            /\ \A i \in 1..Len(SelOutput) : SelOutput[i] = table[SelOutput[i].pid]

\* a process appended twice, after another one
C2_Witness ==
    /\ SelReturned
    /\ Len(SelOutput) = 2
    /\ \E i, j \in 1..Len(sel_ret[1].rig_processes) :
           i # j /\ sel_ret[1].rig_processes[i].pid = 2
                 /\ sel_ret[1].rig_processes[j].pid = 2

\* the relevance predicate of the selector, on a process with a name
RelevanceMatched(p) ==
    /\ p.name.t = "str"
    /\ Relevant(p.cmdline, Lower(p.name.v)) \/ ExecutableMatch(p.cmdline)

IdleDefunct(p) ==
    /\ p.status \in {"stopped", "dead", "zombie"}
    /\ p.cpu_percent <= 1
    /\ p.memory_percent <= 1

HasMarkerPath(p) ==
    /\ p.cmdline.t = "list"
    /\ \E i \in 1..Len(p.cmdline.v) : In("/root/RIGnew", p.cmdline.v[i])

\* C4: once get_rig_processes has run, every process whose command line holds
\* the marker path and that passes the visibility predicate is in its result,
\* whatever the name field is, an unavailable one included.
C4_MarkerPath ==
    (prog = "get_rig_processes" /\ sel_ret # <<>>) =>
        \A i \in 1..Len(table) :
            HasMarkerPath(table[i]) /\ ~IdleDefunct(table[i])
                => /\ sel_ret[1].exc = ""
                   /\ table[i].pid \in SelPids

SpecSelector == SelInit /\ [][GetRigProcesses]_vars

\* ------------------------------------------------------------------------
\* monitor_signals.py: read_and_display_signals
\* A CSV field is Str(text), None (the row is shorter than the header) or
\* Missing (the header has no such column, so row.get returns its default).
\* Numbers are in tenths.
\* ------------------------------------------------------------------------
Missing == [t |-> "missing"]

\* float(x): the value, or the exception raised
Float(x) ==
    CASE x.t = "none" -> [exc |-> "TypeError", v |-> 0]
      [] x.t = "int" -> [exc |-> "", v |-> 10 * x.v]
      [] x.v = "1.5" -> [exc |-> "", v |-> 15]
      [] x.v = "-2" -> [exc |-> "", v |-> -20]
      [] OTHER -> [exc |-> "ValueError", v |-> 0]

\* row.get(key, default)
Get(field, default) == IF field.t = "missing" THEN default ELSE field

IntVal(n) == [t |-> "int", v |-> n]

\* the inner handler catching ValueError alone
M_RowCaught == {"ValueError"}

\* except (ValueError, TypeError)
RowCaught == {"ValueError", "TypeError"}

\* the body of `for row in reader`: the dict appended, or the exception that
\* leaves the body.  row is the index of the data row (the identity of the
\* dict, which two rows of equal fields do not share).
ParseRow(row, i) ==
    LET p == Float(Get(row.price, IntVal(0)))
        c == IF p.exc = "" THEN Float(Get(row.change_24h, IntVal(0)))
             ELSE [exc |-> p.exc, v |-> 0]
        exc == IF p.exc # "" THEN p.exc ELSE c.exc
    IN  IF exc # "" /\ exc \notin RowCaught
        THEN [exc |-> exc, signal |-> <<>>]
        ELSE [exc |-> "",
              signal |-> <<[timestamp |-> Get(row.timestamp, Str(<<>>)),
                            name |-> Get(row.name, Str(<<>>)),
                            price |-> IF exc = "" THEN p.v ELSE 0,
                            change_24h |-> IF exc = "" THEN c.v ELSE 0,
                            row |-> i]>>]

RECURSIVE ParseFrom(_, _, _)
ParseFrom(rows, i, acc) ==
    IF i > Len(rows) THEN [exc |-> "", signals |-> acc]
    ELSE LET r == ParseRow(rows[i], i)
         IN  IF r.exc # "" THEN [exc |-> r.exc, signals |-> acc]
             ELSE ParseFrom(rows, i + 1, acc \o r.signal)

\* a < b on strings (sequences of characters, compared by code point)
RECURSIVE StrLess(_, _)
StrLess(a, b) ==
    IF b = <<>> THEN FALSE
    ELSE IF a = <<>> THEN TRUE
    ELSE IF a[1] # b[1] THEN a[1] < b[1]
    ELSE StrLess(Tail(a), Tail(b))

\* list.sort compares every key with another one as soon as there are two;
\* None is not orderable
SortRaises(l) ==
    Len(l) >= 2 /\ \E i \in 1..Len(l) : l[i].timestamp.t = "none"

\* the sort without reverse=True
RECURSIVE M_InsertDesc(_, _)
M_InsertDesc(sorted, x) ==
    IF sorted = <<>> THEN <<x>>
    ELSE IF StrLess(x.timestamp.v, sorted[1].timestamp.v)
    THEN <<x>> \o sorted
    ELSE <<sorted[1]>> \o M_InsertDesc(Tail(sorted), x)

\* x put into a list sorted by timestamp, greatest first, behind the entries
\* of equal timestamp (list.sort is stable, also with reverse=True)
RECURSIVE InsertDesc(_, _)
InsertDesc(sorted, x) ==
    IF sorted = <<>> THEN <<x>>
    ELSE IF StrLess(sorted[1].timestamp.v, x.timestamp.v)
    THEN <<x>> \o sorted
    ELSE <<sorted[1]>> \o InsertDesc(Tail(sorted), x)

RECURSIVE SortFrom(_, _, _)
SortFrom(l, i, sorted) ==
    IF i > Len(l) THEN sorted
    ELSE SortFrom(l, i + 1, InsertDesc(sorted, l[i]))

\* signals.sort(key=lambda x: x['timestamp'], reverse=True)
SortByTimestamp(l) == IF Len(l) <= 1 THEN l ELSE SortFrom(l, 1, <<>>)

\* the seen_tokens loop
RECURSIVE LatestFrom(_, _, _)
LatestFrom(l, i, seen_tokens) ==
    IF i > Len(l) THEN <<>>
    ELSE IF l[i].name \notin seen_tokens
    THEN <<l[i]>> \o LatestFrom(l, i + 1, seen_tokens \cup {l[i].name})
    ELSE LatestFrom(l, i + 1, seen_tokens)

DisplayCount == 20

\* latest_signals[:20]
Head20(l) == SubSeq(l, 1, IF Len(l) < DisplayCount THEN Len(l) ELSE DisplayCount)

\* no exception taken for an Exception
M_IsException(exc) == FALSE

\* KeyboardInterrupt derives from BaseException, not from Exception
IsException(exc) == exc # "KeyboardInterrupt"

\* the FileNotFoundError clause taken out
M_RefreshHandler(exc) ==
    IF IsException(exc) /\ exc # "FileNotFoundError" THEN "error" ELSE "propagate"

\* the except clauses of read_and_display_signals: what is printed, or
\* "propagate" when no clause matches
RefreshHandler(exc) ==
    IF exc = "FileNotFoundError" THEN "not_found"
    ELSE IF IsException(exc) THEN "error"
    ELSE "propagate"

\* One call.  fault is an exception the environment raises inside the try
\* block once the file is open ("" for none).  The outcome: the exception raised inside the try
\* block, what the function printed ("propagate": the exception leaves it),
\* and the lists built.
read_and_display_signals(exists, rows, fault) ==
    LET parsed == ParseFrom(rows, 1, <<>>)
        exc == IF ~exists THEN "FileNotFoundError"
               ELSE IF fault # "" THEN fault
               ELSE IF parsed.exc # "" THEN parsed.exc
               ELSE IF SortRaises(parsed.signals) THEN "TypeError"
               ELSE ""
        built == exists /\ fault = "" /\ parsed.exc = ""
        latest == IF exc = ""
                  THEN LatestFrom(SortByTimestamp(parsed.signals), 1, {})
                  ELSE <<>>
    IN  [exc |-> exc,
         printed |-> IF exc = "" THEN "table" ELSE RefreshHandler(exc),
         signals |-> IF built THEN parsed.signals ELSE <<>>,
         latest_signals |-> latest,
         displayed |-> Head20(latest)]

\* ---- the files the display is run on
MaxRows == 3

Row(timestamp, name, price, change_24h) ==
    [timestamp |-> timestamp, name |-> name, price |-> price,
     change_24h |-> change_24h]

Timestamps == {None, Str(<<>>), Str(<<1>>), Str(<<1, 0>>), Str(<<2>>)}

TokenNames == {Str(<<"FOO">>), Str(<<"BAR">>)}

\* rows that differ in timestamp and name
DedupRows ==
    {Row(r[1], r[2], Str("1.5"), Str("-2")) : r \in Timestamps \X TokenNames}

PriceFields == {Str("1.5"), Str("abc"), Str(""), None, Missing}

ChangeFields == {Str("-2"), Str("abc"), None}

\* rows that differ in the numeric fields
ParseRows ==
    {Row(Str(<<1>>), Str(<<"FOO">>), r[1], r[2]) :
        r \in PriceFields \X ChangeFields}

SigInitOn(rows) ==
    /\ prog = "monitor_signals"
    /\ \E n \in 0..MaxRows : content \in [1..n -> rows]
    /\ present \in BOOLEAN
    /\ d_pc = "refresh"
    /\ signals = <<>> /\ latest_signals = <<>> /\ displayed = <<>>
    /\ report = "" /\ d_exc = "" /\ d_exit = ""
    /\ FmtIdle /\ SelIdle /\ SmpIdle

\* the exceptions the environment raises inside a refresh ("" for none)
RefreshFaults == <<"OSError", "">>

\* main: read_and_display_signals(); an exception that leaves it leaves the
\* while loop and reaches the handler under __main__
Refresh ==
    /\ prog = "monitor_signals"
    /\ d_pc = "refresh"
    /\ \E k \in DOMAIN RefreshFaults :
         \E r \in {read_and_display_signals(present, content, RefreshFaults[k])} :
             /\ d_exc' = r.exc
             /\ signals' = r.signals
             /\ latest_signals' = r.latest_signals
             /\ displayed' = r.displayed
             /\ IF r.printed = "propagate"
                THEN /\ d_pc' = "exited"
                     /\ d_exit' = r.exc
                     /\ report' = IF r.exc = "KeyboardInterrupt"
                                  THEN "stopped" ELSE "traceback"
                ELSE /\ d_pc' = "sleep"
                     /\ d_exit' = d_exit
                     /\ report' = r.printed
    /\ UNCHANGED <<prog, content, present, fmtVars, selVars, smpVars>>

\* the interrupt arrives inside read_and_display_signals: no except clause
\* of it matches, it leaves main and reaches the handler under __main__
RefreshInterrupted ==
    /\ prog = "monitor_signals"
    /\ d_pc = "refresh"
    /\ RefreshHandler("KeyboardInterrupt") = "propagate"
    /\ d_exc' = "KeyboardInterrupt"
    /\ d_pc' = "exited"
    /\ d_exit' = "KeyboardInterrupt"
    /\ report' = "stopped"
    /\ signals' = <<>> /\ latest_signals' = <<>> /\ displayed' = <<>>
    /\ UNCHANGED <<prog, content, present, fmtVars, selVars, smpVars>>

\* main: time.sleep(5) returns
Sleep ==
    /\ prog = "monitor_signals"
    /\ d_pc = "sleep"
    /\ d_pc' = "refresh"
    /\ UNCHANGED <<prog, content, present, signals, latest_signals, displayed,
                   report, d_exc, d_exit, fmtVars, selVars, smpVars>>

\* the interrupt arrives during time.sleep(5)
SleepInterrupted ==
    /\ prog = "monitor_signals"
    /\ d_pc = "sleep"
    /\ d_pc' = "exited"
    /\ d_exit' = "KeyboardInterrupt"
    /\ report' = "stopped"
    /\ UNCHANGED <<prog, content, present, signals, latest_signals, displayed,
                   d_exc, fmtVars, selVars, smpVars>>

\* another program writes or removes the input file
FileChanges ==
    /\ prog = "monitor_signals"
    /\ d_pc # "exited"
    /\ present' = ~present
    /\ UNCHANGED <<prog, content, d_pc, signals, latest_signals, displayed,
                   report, d_exc, d_exit, fmtVars, selVars, smpVars>>

SigNext ==
    Refresh \/ RefreshInterrupted \/ Sleep \/ SleepInterrupted \/ FileChanges

\* ------------------------------------------------------------------------
\* C1, C5
\* ------------------------------------------------------------------------
\* the last refresh built latest_signals and printed the table
TableShown == prog = "monitor_signals" /\ d_exc = "" /\ report = "table"

\* the data rows of the file with this token name
RowsNamed(name) == {i \in 1..Len(content) : content[i].name = name}

\* row i is the latest of its name: no row of the name has a greater
\* timestamp, and of those with the same timestamp it is the first
IsLatest(i) ==
    \A j \in RowsNamed(content[i].name) \ {i} :
        /\ ~StrLess(content[i].timestamp.v, content[j].timestamp.v)
        /\ content[j].timestamp = content[i].timestamp => i < j

\* C1: latest_signals holds exactly one row per distinct token name of the
\* file, the one with the greatest timestamp string of that name; of several
\* rows sharing the greatest timestamp, the first in CSV row order.
C1_LatestPerToken ==
    TableShown =>
        /\ \A i \in 1..Len(content) :
               \E k \in 1..Len(latest_signals) :
                   /\ latest_signals[k].name = content[i].name
                   /\ \A m \in 1..Len(latest_signals) :
                          latest_signals[m].name = content[i].name => m = k
        /\ \A k \in 1..Len(latest_signals) :
               LET i == latest_signals[k].row
               IN  /\ i \in 1..Len(content)
                   /\ latest_signals[k].name = content[i].name
                   /\ latest_signals[k].timestamp = content[i].timestamp
                   /\ IsLatest(i)

\* FOO at T1 < T2 < T3 given in the order T2, T3, T1: the T3 row is retained
C1_Witness ==
    /\ TableShown
    /\ Len(content) = 3
    /\ \A i \in 1..3 : content[i].name = Str(<<"FOO">>)
    /\ content[1].timestamp = Str(<<1, 0>>)
    /\ content[2].timestamp = Str(<<2>>)
    /\ content[3].timestamp = Str(<<1>>)
    /\ Len(latest_signals) = 1
    /\ latest_signals[1].row = 2

\* two rows of a name sharing the greatest timestamp: the first is retained
C1_TieWitness ==
    /\ TableShown
    /\ Len(content) = 3
    /\ \A i \in 1..3 : content[i].name = Str(<<"FOO">>)
    /\ content[1].timestamp = Str(<<1>>)
    /\ content[2].timestamp = Str(<<2>>)
    /\ content[3].timestamp = Str(<<2>>)
    /\ latest_signals[1].row = 2

\* a field float() does not take: not a number, empty, or absent
Malformed(field) ==
    \/ field.t = "none"
    \/ field.t = "str" /\ field.v \notin {"1.5", "-2"}

\* the last refresh opened the file and ran the row loop to its end
RowsParsed ==
    /\ prog = "monitor_signals"
    /\ d_pc # "refresh" \/ report # ""
    /\ d_exc \in {"", "TypeError"}

\* C5: a row whose price or change_24h is malformed is parsed with that field
\* 0, nothing is raised out of the row loop, and the row is appended: there
\* are as many signals as data rows.
C5_MalformedNumber ==
    /\ prog = "monitor_signals" => d_exc \notin {"ValueError"}
    /\ RowsParsed =>
        /\ Len(signals) = Len(content)
        /\ \A i \in 1..Len(content) :
               /\ signals[i].row = i
               /\ Malformed(content[i].price) => signals[i].price = 0
               /\ content[i].price.t = "missing" => signals[i].price = 0
               /\ Malformed(content[i].change_24h) => signals[i].change_24h = 0

C5_Witness ==
    /\ RowsParsed
    /\ report = "table"
    /\ Len(content) = 3
    /\ content[1].price = Str("abc")
    /\ content[2].price = None
    /\ content[3].price = Str("1.5") /\ content[3].change_24h = Str("abc")
    /\ Len(signals) = 3
    /\ signals[3].price = 0

SpecSignals == SigInitOn(DedupRows) /\ [][SigNext]_vars

SpecParse == SigInitOn(ParseRows) /\ [][SigNext]_vars

\* ------------------------------------------------------------------------
\* monitor_performance.  The log file is a buffered writer: writerow puts a
\* row into the buffer, the buffer reaches the file when it fills, on
\* f.flush() and when the with block closes f.  A row is <<pass, pid>>; the
\* header is <<0, 0>>.  The figures sampled for a row are not carried.
\* ------------------------------------------------------------------------
MaxIterations == 2

Header == <<0, 0>>

\* the tables a pass of the loop may find
LoopNames == {None, Str(<<"Python", "3">>)}

LoopStatuses == {"running", "zombie"}

\* the exceptions the handler in `for proc in processes` swallows
SampleCaught == {"NoSuchProcess", "AccessDenied"}

\* what may be raised while one process is sampled and its row written
SampleFaults == {"", "NoSuchProcess", "AccessDenied", "OSError"}

\* no handler around `while True`
M_LoopHandler(exc) == "uncaught"

\* f.flush() doing nothing
M_f_flush(file, buf) == [disk |-> file, buffer |-> buf]

\* f.flush(): the buffer is written to the file
f_flush(file, buf) == [disk |-> file \o buf, buffer |-> <<>>]

\* leaving `with open(...) as f` closes f, which writes the buffer out
f_close(file, buf) == [disk |-> file \o buf, buffer |-> <<>>]

\* the handlers around `while True`: except KeyboardInterrupt alone
LoopHandler(exc) ==
    IF exc = "KeyboardInterrupt" THEN "interrupted" ELSE "uncaught"

Pids(l) == [i \in 1..Len(l) |-> l[i].pid]

SmpInit ==
    /\ prog = "monitor_performance"
    /\ s_pc = "select"
    /\ iteration = 1
    /\ processes = <<>>
    /\ s_i = 0
    /\ buffer = <<Header>>
    /\ disk = <<>>
    /\ written = {Header}
    /\ s_msg = "" /\ s_exc = "" /\ s_exit = ""
    /\ FmtIdle /\ SelIdle /\ SigIdle

\* exc is raised inside `while True`: the KeyboardInterrupt clause prints the
\* closing message, any other exception leaves monitor_performance; either
\* way the with block closes f, which writes the buffer out
Raise(exc) ==
    /\ s_exc' = exc
    /\ s_pc' = "exited"
    /\ s_exit' = exc
    /\ s_msg' = IF LoopHandler(exc) = "interrupted"
                THEN "stopped, log saved to log_file" ELSE ""
    /\ disk' = f_close(disk, buffer).disk
    /\ buffer' = f_close(disk, buffer).buffer

\* processes = get_rig_processes() and the table heading
Select ==
    /\ prog = "monitor_performance"
    /\ s_pc = "select"
    /\ \E n \in 0..MaxProcs :
         \E f \in [1..n -> LoopNames \X {None} \X LoopStatuses \X {<<0, 0>>}] :
           \E r \in {get_rig_processes(TableOf(f))} :
               IF r.exc = ""
               THEN /\ processes' = Pids(r.unique_processes)
                    /\ s_i' = 1
                    /\ s_pc' = "sample"
                    /\ UNCHANGED <<buffer, disk, s_msg, s_exc, s_exit>>
               ELSE /\ Raise(r.exc)
                    /\ UNCHANGED <<processes, s_i>>
    /\ UNCHANGED <<prog, iteration, written, fmtVars, selVars, sigVars>>

\* the body of `for proc in processes` for one process
Sample ==
    /\ prog = "monitor_performance"
    /\ s_pc = "sample"
    /\ s_i <= Len(processes)
    /\ \E fault \in SampleFaults :
         IF fault = ""
         THEN /\ buffer' = Append(buffer, <<iteration, processes[s_i]>>)
              /\ written' = written \cup {<<iteration, processes[s_i]>>}
              /\ s_i' = s_i + 1
              /\ UNCHANGED <<s_pc, disk, s_msg, s_exc, s_exit>>
         ELSE IF fault \in SampleCaught
         THEN /\ s_i' = s_i + 1
              /\ s_exc' = fault
              /\ UNCHANGED <<s_pc, buffer, disk, written, s_msg, s_exit>>
         ELSE /\ Raise(fault)
              /\ UNCHANGED <<s_i, written>>
    /\ UNCHANGED <<prog, iteration, processes, fmtVars, selVars, sigVars>>

\* after the for loop: the totals are printed and f.flush() is called
Flush ==
    /\ prog = "monitor_performance"
    /\ s_pc = "sample"
    /\ s_i > Len(processes)
    /\ \E fault \in {"", "OSError"} :
         IF fault = ""
         THEN /\ disk' = f_flush(disk, buffer).disk
              /\ buffer' = f_flush(disk, buffer).buffer
              /\ s_pc' = "sleep"
              /\ UNCHANGED <<s_msg, s_exc, s_exit>>
         ELSE Raise(fault)
    /\ UNCHANGED <<prog, iteration, processes, s_i, written, fmtVars, selVars,
                   sigVars>>

\* time.sleep(interval) returns and the next pass begins
SamplerSleep ==
    /\ prog = "monitor_performance"
    /\ s_pc = "sleep"
    /\ iteration < MaxIterations
    /\ iteration' = iteration + 1
    /\ s_pc' = "select"
    /\ UNCHANGED <<prog, processes, s_i, buffer, disk, written, s_msg, s_exc,
                   s_exit, fmtVars, selVars, sigVars>>

\* the interrupt arrives, wherever the pass is
Interrupt ==
    /\ prog = "monitor_performance"
    /\ s_pc \in {"select", "sample", "sleep"}
    /\ Raise("KeyboardInterrupt")
    /\ UNCHANGED <<prog, iteration, processes, s_i, written, fmtVars, selVars,
                   sigVars>>

\* the buffer fills and its first rows reach the file
BufferSpills ==
    /\ prog = "monitor_performance"
    /\ s_pc # "exited"
    /\ \E n \in 1..Len(buffer) :
         /\ disk' = disk \o SubSeq(buffer, 1, n)
         /\ buffer' = SubSeq(buffer, n + 1, Len(buffer))
    /\ UNCHANGED <<prog, s_pc, iteration, processes, s_i, written, s_msg, s_exc,
                   s_exit, fmtVars, selVars, sigVars>>

SmpNext == Select \/ Sample \/ Flush \/ SamplerSleep \/ Interrupt \/ BufferSpills

SpecSampler == SmpInit /\ [][SmpNext]_vars

\* ---- both programs
SpecLoops == (SmpInit \/ SigInitOn(DedupRows)) /\ [][SmpNext \/ SigNext]_vars

\* ------------------------------------------------------------------------
\* C9
\* ------------------------------------------------------------------------
InFile(r) == \E i \in 1..Len(disk) : disk[i] = r

\* C9: the rows written in a pass are in the file before that pass sleeps, so
\* at every point the file holds every row of the earlier passes, and the
\* header once the first pass has flushed; only rows of the pass in progress
\* (and, in the first pass, the header) are still in the buffer.
C9_FlushedBeforeSleep ==
    prog = "monitor_performance" =>
        /\ s_pc = "sleep" => buffer = <<>> /\ \A r \in written : InFile(r)
        /\ \A r \in written : (r # Header /\ r[1] < iteration) => InFile(r)
        /\ iteration >= 2 => InFile(Header)
        /\ \A i \in 1..Len(buffer) :
               \/ buffer[i][1] = iteration
               \/ buffer[i] = Header /\ iteration = 1

\* in the second pass, with a row of it unflushed and a row of the first in
\* the file
C9_Witness ==
    /\ prog = "monitor_performance"
    /\ iteration = 2
    /\ s_pc = "sample"
    /\ \E i \in 1..Len(buffer) : buffer[i][1] = 2
    /\ \E i \in 1..Len(disk) : disk[i][1] = 1

\* ------------------------------------------------------------------------
\* C7, C8
\* ------------------------------------------------------------------------
StopMessage == "stopped, log saved to log_file"

DisplayInterrupt == SleepInterrupted \/ RefreshInterrupted

SpecDisplayLive ==
    /\ SigInitOn(DedupRows)
    /\ [][SigNext]_vars
    /\ WF_vars(Refresh)
    /\ WF_vars(Sleep)

\* a refresh that finds no file prints the error and goes to sleep, unless
\* the interrupt ends it
MissingFileStep ==
    (prog = "monitor_signals" /\ d_pc = "refresh" /\ ~present /\ d_pc' # "refresh")
        => \/ d_pc' = "sleep" /\ report' = "not_found" /\ d_exit' = ""
           \/ d_pc' = "exited" /\ d_exit' = "KeyboardInterrupt"

\* C6: a refresh at which the file is missing reports the error and does not
\* end the loop; the next refresh is attempted after the sleep, so once the
\* file has appeared it is read: the table is displayed, or the exception
\* raised while reading it is reported (unless the file is removed again or
\* the interrupt arrives first).
C6_MissingFile ==
    /\ [][MissingFileStep]_vars
    /\ (report = "not_found" /\ present)
           ~> \/ report = "table"
              \/ d_exc \notin {"", "FileNotFoundError"}
              \/ ~present
              \/ d_pc = "exited"

\* the missing file was reported, the file has appeared and a refresh is due
C6_Witness ==
    /\ prog = "monitor_signals"
    /\ report = "not_found"
    /\ present
    /\ d_pc = "refresh"
    /\ Len(content) = 2

SpecFormat == FsInit /\ [][FsNext]_vars
====
